---- MODULE Spec2Model ----
(***************************************************************************)
(* The reflections denoiser (RayTracedReflections) inside the frame loop   *)
(* of HybridRendering::update().  The model follows the host-side command  *)
(* recording: which passes are recorded, in which order, which images each *)
(* pass binds for reading and writing, and the image layouts the recorded  *)
(* barriers declare.  Image contents are abstracted to a stamp saying who  *)
(* wrote the image last and in which frame.                                *)
(***************************************************************************)
EXTENDS Integers, Sequences, FiniteSets, TLC

\* ------------------------------------------------------------------ bounds
MaxFrames == 3
MaxInstances == 1
MaxIterations == 2
MaxTiles == 2
MaxHostFrames == 17
MaxExtent == 17

\* --------------------------------------------------------------- constants
RAY_TRACE_SCALE_FULL_RES == 0
NumRayTraceScales == 3
NumMeshes == 5
HALTON_SAMPLES == 16
TEMPORAL_ACCUMULATION_NUM_THREADS_X == 8
TEMPORAL_ACCUMULATION_NUM_THREADS_Y == 8
SizeofIvec2 == 8

RayTraceScales == 0 .. (NumRayTraceScales - 1)

\* Default member initialisers of RayTracedReflections.
DefaultDenoise == TRUE
DefaultBlurAsInput == FALSE

\* ------------------------------------------------------------------ images
Images ==
    { "ray_trace", "current_output_0", "current_output_1",
      "current_moments_0", "current_moments_1", "prev",
      "a_trous_0", "a_trous_1", "upsample" }

Layouts ==
    { "UNDEFINED", "GENERAL", "SHADER_READ_ONLY_OPTIMAL",
      "TRANSFER_SRC_OPTIMAL", "TRANSFER_DST_OPTIMAL" }

\* (uint32_t) cast of a bool used as an array index.
Idx(b) == IF b THEN 1 ELSE 0

current_output_image(k) == IF k = 0 THEN "current_output_0" ELSE "current_output_1"
current_moments_image(k) == IF k = 0 THEN "current_moments_0" ELSE "current_moments_1"
a_trous_image(k) == IF k = 0 THEN "a_trous_0" ELSE "a_trous_1"

\* Descriptor sets, as the images the descriptor writes bind to them.
output_only_read_ds(k) == << current_output_image(k) >>
current_write_ds(k) == << current_output_image(k), current_moments_image(k) >>
current_read_ds(k) == << current_output_image(k), current_moments_image(k) >>
prev_read_ds(k) == << "prev", current_moments_image(k) >>
a_trous_write_ds(k) == << a_trous_image(k) >>
a_trous_read_ds(k) == << a_trous_image(k) >>

\* ----------------------------------------------------------------- buffers
\* The buffers bound through m_temporal_accumulation.indirect_buffer_ds.
Buffers ==
    { "denoise_tile_coords", "denoise_dispatch_args",
      "copy_tile_coords", "copy_dispatch_args" }

DispatchArgsBuffers == { "denoise_dispatch_args", "copy_dispatch_args" }

\* The tiles of the working resolution (one work group of the reprojection
\* dispatch each).
Tiles == 1 .. MaxTiles

\* Synchronisation state of a buffer: the accesses its last shader write has
\* been made visible to ({} right after a write), the frame of that write,
\* and the read accesses recorded since that no barrier has yet ordered
\* before a later write.
FreshBuffer == [visible |-> {}, frame |-> -1, reads |-> {}]

\* A shader write of frame f.
BufferWritten(f) == [visible |-> {}, frame |-> f, reads |-> {}]

\* buffer_memory_barrier(buffer, 0, VK_WHOLE_SIZE, src, dst): a write that
\* is not in the source access mask stays unavailable, a read that is not in
\* it stays unordered.
BufferBarrier(sync, buffer, src, dst) ==
    [sync EXCEPT ![buffer] =
        [ visible |-> IF @.visible = {} /\ "SHADER_WRITE" \notin src
                        THEN @.visible ELSE dst,
          frame |-> @.frame,
          reads |-> @.reads \ src ]]

\* A dispatch reads the buffer with the given access.
BufferRead(sync, buffer, access) ==
    [sync EXCEPT ![buffer].reads = @ \cup { access }]

\* ---------------------------------------------------------- image contents
Undef == [st |-> "undef", frame |-> -1, src |-> "none", it |-> -1]
Cleared(f) == [st |-> "cleared", frame |-> f, src |-> "clear_images", it |-> -1]
Written(f, src, it) == [st |-> "written", frame |-> f, src |-> src, it |-> it]

VARIABLES
    init_result,        \* what init() returned
    ubo,                \* m_common_resources->ubo
    meshes,             \* number of entries of m_common_resources->meshes
    components,         \* the renderer components constructed so far
    pc,                 \* position of the host thread in update() / render()
    num_frames,         \* m_common_resources->num_frames
    ping_pong,          \* m_common_resources->ping_pong
    m_debug_gui,        \* HybridRendering::m_debug_gui
    instance,           \* how many times m_ray_traced_reflections was recreated
    renders,            \* render() calls the live instance has completed
    clears,             \* zero-clears the live instance has recorded
    reprojected,        \* the live instance recorded reprojection in an earlier frame
    m_first_frame,
    m_denoise,
    blur_as_input,      \* m_temporal_accumulation.blur_as_input
    m_scale,
    sample_gi,          \* m_ray_trace.sample_gi
    approximate_with_ddgi, \* m_ray_trace.approximate_with_ddgi
    filter_iterations,  \* m_a_trous.filter_iterations
    feedback_iteration, \* m_a_trous.feedback_iteration
    a_trous_read_idx,   \* m_a_trous.read_idx
    iter_i,             \* a_trous_filter(): loop counter i
    local_ping_pong,    \* a_trous_filter(): local ping_pong
    read_idx,           \* a_trous_filter(): local read_idx
    write_idx,          \* a_trous_filter(): local write_idx
    content,            \* image -> stamp of its last write
    layout,             \* image -> image layout
    buf_sync,           \* buffer -> synchronisation state
    denoise_tile_coords, \* tiles listed in denoise_tile_coords_buffer
    copy_tile_coords,   \* tiles listed in copy_tile_coords_buffer
    log,                \* passes recorded into this frame's command buffer
    barriers,           \* layout transitions and image uses recorded in this frame
    m_taa_enabled,      \* HybridRendering::m_taa_enabled
    m_taa_reset,        \* HybridRendering::m_taa_reset
    common_first_frame,      \* m_common_resources->first_frame (m_first_frame of the older loop)
    m_current_visualization,
    m_current_scene,
    ddgi,               \* the live DDGI instance: normal bias, probe distance
    m_current_jitter,
    m_prev_jitter,
    taa_content,        \* TAA image -> frame and pass of its last write
    host_log,           \* passes update() recorded into this frame's command buffer
    m_common_resources, \* "live" until shutdown() resets the pointer
    m_width,            \* RayTracedReflections::m_width
    m_height,           \* RayTracedReflections::m_height
    buffer_size,        \* tile-coordinate buffer -> size in bytes
    work_groups,        \* group counts of the reprojection dispatch
    tiles_appended      \* entries the classification appended to a tile list

vars ==
    << init_result, ubo, meshes, components, pc, num_frames, ping_pong, m_debug_gui, instance, renders, clears,
       reprojected, m_first_frame, m_denoise, blur_as_input, m_scale, filter_iterations,
       feedback_iteration, a_trous_read_idx, iter_i, local_ping_pong,
       read_idx, write_idx, content, layout, log, sample_gi,
       approximate_with_ddgi, buf_sync, denoise_tile_coords, copy_tile_coords,
       barriers, m_taa_enabled, m_taa_reset, common_first_frame,
       m_current_visualization, m_current_scene, ddgi, m_current_jitter,
       m_prev_jitter, taa_content, host_log, m_common_resources, m_width,
       m_height, buffer_size, work_groups, tiles_appended >>

taa_vars == << m_taa_enabled, m_taa_reset, taa_content >>
jitter_vars == << m_current_jitter, m_prev_jitter >>
scene_vars == << m_current_visualization, m_current_scene, ddgi >>
size_vars == << m_width, m_height, buffer_size, work_groups, tiles_appended >>
host_vars ==
    << taa_vars, jitter_vars, scene_vars, size_vars, common_first_frame, host_log,
       m_common_resources >>

instance_vars == << instance, renders, clears, reprojected >>
settings_vars ==
    << m_denoise, blur_as_input, m_scale, filter_iterations, feedback_iteration,
       sample_gi, approximate_with_ddgi >>
buffer_vars == << buf_sync, denoise_tile_coords, copy_tile_coords >>
local_vars == << iter_i, local_ping_pong, read_idx, write_idx >>
frame_vars == << num_frames, ping_pong, m_debug_gui >>
init_vars == << init_result, ubo, meshes, components >>
render_vars ==
    << num_frames, ping_pong, m_debug_gui, instance_vars, m_first_frame,
       settings_vars, a_trous_read_idx, local_vars, content, layout, log,
       buffer_vars, barriers, host_vars >>
denoiser_vars ==
    << instance_vars, m_first_frame, settings_vars, a_trous_read_idx,
       local_vars, content, layout, log, buffer_vars, barriers >>

\* One recorded pass: the images it reads and writes, and what the read
\* images hold and which layout they are in when the pass is recorded.
Entry(pass, it, in, out, cont, lay, ff) ==
    [ pass |-> pass, it |-> it, in |-> in, out |-> out,
      seen |-> [k \in 1 .. Len(in) |-> cont[in[k]]],
      lay |-> [k \in 1 .. Len(in) |-> lay[in[k]]],
      first_frame |-> ff ]

\* dw::vk::utilities::set_image_layout / an image_memory_barrier: the image
\* is in newLayout afterwards.
SetLayout(lay, image, newLayout) == [lay EXCEPT ![image] = newLayout]

\* A recorded layout transition: the old layout it declares and the layout
\* the image is in when it is recorded.
Transition(pass, lay, image, oldLayout) ==
    [ kind |-> "transition", pass |-> pass, image |-> image,
      declared |-> oldLayout, actual |-> lay[image] ]

\* A recorded use of an image: the layout its descriptor (or the transfer
\* command) declares and the layout the image is in.
Use(pass, lay, image, declaredLayout) ==
    [ kind |-> "use", pass |-> pass, image |-> image,
      declared |-> declaredLayout, actual |-> lay[image] ]

\* ------------------------------------------------------------ construction
\* The components init() constructs, in the order it constructs them.
Components ==
    { "g_buffer", "ray_traced_shadows", "ray_traced_ao", "ddgi",
      "ray_traced_reflections", "deferred_shading" }

\* ------------------------------------------------- HybridRendering members
Visualizations ==
    { "FINAL", "SHADOWS", "AMBIENT_OCCLUSION", "REFLECTIONS",
      "GLOBAL_ILLUIMINATION" }

Scenes == { "PILLARS", "SPONZA", "PICA_PICA" }

\* The two TAA images of CommonResources.
TaaImages == { "taa_0", "taa_1" }
taa_image(k) == IF k = 0 THEN "taa_0" ELSE "taa_1"

\* A TAA image nothing has written yet.
NoWrite == [frame |-> -1, by |-> "none"]
WrittenBy(f, pass) == [frame |-> f, by |-> pass]

\* m_jitter_samples after init(): entry i is built from halton_sequence(2, i)
\* and halton_sequence(3, i), i = 1 .. HALTON_SAMPLES.
m_jitter_samples == [i \in 1 .. HALTON_SAMPLES |-> << "halton", i >>]

\* glm::vec2(0.0f)
ZeroJitter == << "zero", 0 >>

\* m_jitter_samples[idx] with a zero-based idx; a read past the end of the
\* vector yields no sample of the table.
JitterSample(idx) ==
    IF idx < Len(m_jitter_samples)
      THEN m_jitter_samples[idx + 1]
      ELSE << "out_of_bounds", idx >>

\* What set_active_scene() sets on the live DDGI instance.
SceneNormalBias(scene) == IF scene = "SPONZA" THEN "0.1f" ELSE "1.0f"
SceneProbeDistance(scene) == IF scene = "SPONZA" THEN "50.0f" ELSE "4.0f"

set_active_scene(instance_, scene) ==
    [ instance_ EXCEPT !.normal_bias = SceneNormalBias(scene),
                       !.probe_distance = SceneProbeDistance(scene) ]

\* The normal bias and probe distance a DDGI instance has when its
\* constructor returns: one fixed pair per build, which may or may not be
\* the pair of one of the scenes.
DDGIDefaults ==
    { [normal_bias |-> "default", probe_distance |-> "default"] }
    \cup { [normal_bias |-> SceneNormalBias(sc),
            probe_distance |-> SceneProbeDistance(sc)] : sc \in Scenes }

\* new DDGI(backend, common_resources, g_buffer, scale): the scale sizes the
\* instance's images and has no part in the two settings.
DDGIConstructed(scale) == DDGIDefaults

\* What a combo box hands back in one frame: nothing, or the entry clicked.
Selections(entries) == { << >> } \cup { << e >> : e \in entries }

\* The objects each component keeps a raw pointer to (constructor arguments
\* common_resources.get() and g_buffer.get()).
RawPointers(c) ==
    IF c = "g_buffer" THEN { "common_resources" }
                      ELSE { "common_resources", "g_buffer" }

\* The order in which shutdown() resets the owning pointers.
ShutdownOrder ==
    << "deferred_shading", "g_buffer", "ray_traced_shadows", "ray_traced_ao",
       "ray_traced_reflections", "ddgi", "common_resources" >>

\* static_cast<uint32_t>(ceil(float(a) / float(b))) for extents a float
\* represents exactly.
CeilDiv(a, b) == IF a % b = 0 THEN a \div b ELSE (a \div b) + 1

\* The size create_buffers() gives each tile-coordinate buffer, in bytes.
TileCoordsBufferSizeTruncated(w, h) ==
    SizeofIvec2 * (w \div TEMPORAL_ACCUMULATION_NUM_THREADS_X)
                * (h \div TEMPORAL_ACCUMULATION_NUM_THREADS_Y)
TileCoordsBufferSize(w, h) ==
    SizeofIvec2 * CeilDiv(w, TEMPORAL_ACCUMULATION_NUM_THREADS_X)
                * CeilDiv(h, TEMPORAL_ACCUMULATION_NUM_THREADS_Y)

TileCoordsBuffers == { "denoise_tile_coords", "copy_tile_coords" }

\* The group counts of the vkCmdDispatch of temporal_accumulation().
ReprojectionWorkGroups(w, h) ==
    << CeilDiv(w, TEMPORAL_ACCUMULATION_NUM_THREADS_X),
       CeilDiv(h, TEMPORAL_ACCUMULATION_NUM_THREADS_Y) >>

\* The member initialisers of HybridRendering and what init() leaves behind:
\* the DDGI instance after set_active_scene(), the jitter table filled.
HostFields(taa_enabled, ddgi_scale) ==
    /\ m_taa_enabled = taa_enabled
    /\ m_taa_reset = TRUE
    /\ common_first_frame = TRUE
    /\ m_current_visualization = "FINAL"
    /\ m_current_scene = "PILLARS"
    /\ ddgi \in { set_active_scene(d, "PILLARS") : d \in DDGIConstructed(ddgi_scale) }
    /\ m_current_jitter = ZeroJitter
    /\ m_prev_jitter = ZeroJitter
    /\ taa_content = [im \in TaaImages |-> NoWrite]
    /\ host_log = << >>
    /\ m_common_resources = "live"

\* The denoiser instance at working resolution w x h after create_buffers().
BuffersCreated(w, h) ==
    /\ m_width = w
    /\ m_height = h
    /\ buffer_size = [b \in TileCoordsBuffers |-> TileCoordsBufferSize(w, h)]
    /\ work_groups = << 0, 0 >>
    /\ tiles_appended = 0

\* The frame counters and the fields of the denoiser as its constructor
\* leaves them.
Constructed ==
    /\ num_frames = 0
    /\ ping_pong = FALSE
    /\ m_debug_gui = FALSE
    /\ instance = 0
    /\ renders = 0
    /\ clears = 0
    /\ reprojected = FALSE
    /\ m_first_frame = TRUE
    /\ m_denoise = DefaultDenoise
    /\ blur_as_input = DefaultBlurAsInput
    /\ m_scale = RAY_TRACE_SCALE_FULL_RES
    /\ filter_iterations \in 0 .. MaxIterations
    /\ feedback_iteration \in 0 .. MaxIterations
    /\ a_trous_read_idx = 0
    /\ iter_i = 0
    /\ local_ping_pong = FALSE
    /\ read_idx = 0
    /\ write_idx = 1
    /\ content = [im \in Images |-> Undef]
    /\ layout = [im \in Images |-> "UNDEFINED"]
    /\ log = << >>
    /\ barriers = {}
    /\ sample_gi \in BOOLEAN
    /\ approximate_with_ddgi \in BOOLEAN
    /\ buf_sync = [b \in Buffers |-> FreshBuffer]
    /\ denoise_tile_coords = {}
    /\ copy_tile_coords = {}

\* The state in which the frame loop starts: init() has returned true.
Init ==
    /\ pc = "idle"
    /\ init_result = "true"
    /\ ubo = "created"
    /\ meshes = NumMeshes
    /\ components = Components
    /\ Constructed
    /\ HostFields(TRUE, RAY_TRACE_SCALE_FULL_RES)
    /\ BuffersCreated(MaxExtent, MaxExtent)

\* The state in which the application enters init().
InitApp ==
    /\ pc = "create_uniform_buffer"
    /\ init_result = "none"
    /\ ubo = "none"
    /\ meshes = 0
    /\ components = {}
    /\ Constructed
    /\ HostFields(TRUE, RAY_TRACE_SCALE_FULL_RES)
    /\ BuffersCreated(MaxExtent, MaxExtent)

\* ------------------------------------------------------------------ init()
\* What create_uniform_buffer() returns: true, whatever Buffer::create did.
UniformBufferResult(created) == TRUE

\* init() up to `if (!create_uniform_buffer()) return false;`.  The outcome
\* of dw::vk::Buffer::create is not inspected; when the allocation fails the
\* library either hands back an empty handle or throws out of init().
CreateUniformBuffer ==
    /\ pc = "create_uniform_buffer"
    /\ \E created \in BOOLEAN :
         \/ /\ ubo' = (IF created THEN "created" ELSE "failed")
            /\ IF UniformBufferResult(created)
                 THEN pc' = "load_mesh" /\ UNCHANGED init_result
                 ELSE pc' = "exit" /\ init_result' = "false"
         \/ /\ ~created
            /\ ubo' = "failed"
            /\ pc' = "exit"
            /\ init_result' = "threw"
    /\ UNCHANGED << meshes, components, render_vars >>

\* What load_mesh() returns when the Mesh::load call number `failed` returned
\* null (0: none did).
LoadMeshResult(failed) == failed = 0

\* load_mesh(): the meshes loaded before the failing one stay in the list.
LoadMesh ==
    /\ pc = "load_mesh"
    /\ \E failed \in 0 .. NumMeshes :
         /\ meshes' = (IF failed = 0 THEN NumMeshes ELSE failed - 1)
         /\ IF LoadMeshResult(failed)
              THEN pc' = "construct" /\ UNCHANGED init_result
              ELSE pc' = "exit" /\ init_result' = "false"
    /\ UNCHANGED << ubo, components, render_vars >>

\* The rest of init(): shared resources, the six components, pipelines,
\* scene and camera, then `return true`.
ConstructComponents ==
    /\ pc = "construct"
    /\ components' = Components
    /\ init_result' = "true"
    /\ pc' = "idle"
    /\ UNCHANGED << ubo, meshes, render_vars >>


\* ------------------------------------------------------------- key_pressed
\* GLFW_KEY_G toggles the debug GUI; events are delivered between updates.
KeyPressed ==
    /\ pc = "idle"
    /\ UNCHANGED << init_vars, host_vars >>
    /\ m_debug_gui' = ~m_debug_gui
    /\ UNCHANGED << pc, num_frames, ping_pong, instance_vars, m_first_frame,
                    settings_vars, a_trous_read_idx, local_vars, content,
                    layout, log, buffer_vars, barriers >>

\* ------------------------------------------------- update(): GUI section
\* Selecting an entry of the reflections "Scale" combo: wait_idle(), reset()
\* and a new RayTracedReflections.  Every image of the new instance is a new
\* allocation whose content is undefined; the members take their defaults.
Recreate(scale) ==
    /\ instance' = instance + 1
    /\ renders' = 0
    /\ clears' = 0
    /\ reprojected' = FALSE
    /\ m_first_frame' = TRUE
    /\ m_scale' = scale
    /\ a_trous_read_idx' = 0
    /\ content' = [im \in Images |-> Undef]
    /\ layout' = [im \in Images |-> "UNDEFINED"]
    /\ buf_sync' = [b \in Buffers |-> FreshBuffer]
    /\ denoise_tile_coords' = {}
    /\ copy_tile_coords' = {}

KeepInstance ==
    UNCHANGED << instance_vars, m_first_frame, m_scale, a_trous_read_idx,
                 content, layout, buffer_vars >>

\* update() up to the first render call: a command buffer is allocated and,
\* when the debug GUI is shown, the scale combo and gui() run.  gui() may
\* flip the "Denoise", "Blur as Temporal Input", "Sample GI" and
\* "Approximate With DDGI" check boxes.
UpdateBegin ==
    /\ pc = "idle"
    /\ UNCHANGED << init_vars, host_vars >>
    /\ num_frames < MaxFrames
    /\ log' = << >>
    /\ barriers' = {}
    /\ pc' = "clear_images"
    /\ IF m_debug_gui
         THEN /\ \/ KeepInstance
                 \/ /\ instance < MaxInstances
                    /\ \E scale \in RayTraceScales : Recreate(scale)
              /\ m_denoise' \in BOOLEAN
              /\ blur_as_input' \in BOOLEAN
              /\ sample_gi' \in BOOLEAN
              /\ approximate_with_ddgi' \in BOOLEAN
         ELSE /\ KeepInstance
              /\ UNCHANGED << m_denoise, blur_as_input, sample_gi,
                              approximate_with_ddgi >>
    /\ UNCHANGED << frame_vars, filter_iterations, feedback_iteration, local_vars >>

\* ------------------------------------------------------------ clear_images
\* A clear_images() that forgets to reset the flag.
FirstFrameLeftSet == TRUE

\* Value of m_first_frame when clear_images() returns.
FirstFrameAfterClear == FALSE

\* The images clear_images() zero-clears.
ClearedImages(pp) ==
    << "prev", current_output_image(Idx(~pp)), current_moments_image(Idx(~pp)) >>

ClearImages ==
    /\ pc = "clear_images"
    /\ UNCHANGED << init_vars, host_vars >>
    /\ pc' = "ray_trace"
    /\ IF m_first_frame
         THEN LET cl == ClearedImages(ping_pong)
                  general == [im \in Images |->
                                IF \E k \in 1 .. Len(cl) : cl[k] = im
                                  THEN "GENERAL" ELSE layout[im]]
              IN
              /\ barriers' = barriers
                   \cup { Transition("clear_images", layout, cl[k], "UNDEFINED") : k \in 1 .. Len(cl) }
                   \cup { Use("clear_images", general, cl[k], "GENERAL") : k \in 1 .. Len(cl) }
                   \cup { Transition("clear_images", general, cl[k], "GENERAL") : k \in 1 .. Len(cl) }
              /\ content' = [im \in Images |->
                               IF \E k \in 1 .. Len(cl) : cl[k] = im
                                 THEN Cleared(num_frames) ELSE content[im]]
              /\ layout' = [im \in Images |->
                              IF \E k \in 1 .. Len(cl) : cl[k] = im
                                THEN "SHADER_READ_ONLY_OPTIMAL" ELSE layout[im]]
              /\ log' = Append(log, Entry("clear_images", -1, << >>, cl,
                                          content, layout, m_first_frame))
              /\ clears' = clears + 1
              /\ m_first_frame' = FirstFrameAfterClear
         ELSE UNCHANGED << content, layout, log, clears, m_first_frame, barriers >>
    /\ UNCHANGED << frame_vars, instance, renders, reprojected, settings_vars,
                    a_trous_read_idx, local_vars, buffer_vars >>

\* ---------------------------------------------------------------- render()
\* A render() that goes from ray_trace() straight to temporal_accumulation().
AfterRayTraceSkippingReset ==
    IF m_denoise THEN "temporal_accumulation" ELSE "render_done"

\* A render() that runs the denoiser whether or not denoise is enabled.
AfterRayTraceAlwaysDenoise == "reset_args"

\* render(): what follows ray_trace().
AfterRayTrace == IF m_denoise THEN "reset_args" ELSE "render_done"

\* render(): what follows a_trous_filter().
AfterATrous ==
    IF m_scale # RAY_TRACE_SCALE_FULL_RES THEN "upsample" ELSE "render_done"

\* ---------------------------------------------------------- push constants
\* `setting && !m_first_frame ? 1 : 0`
PushFlag(setting, first_frame) == IF setting /\ ~first_frame THEN 1 ELSE 0

\* --------------------------------------------------------------- ray_trace
RayTracePushConstants ==
    [ sample_gi |-> PushFlag(sample_gi, m_first_frame),
      approximate_with_ddgi |-> PushFlag(approximate_with_ddgi, m_first_frame) ]

RayTrace ==
    /\ pc = "ray_trace"
    /\ UNCHANGED << init_vars, host_vars >>
    /\ pc' = AfterRayTrace
    /\ log' = Append(log, Entry("ray_trace", -1, << >>, << "ray_trace" >>,
                                content, layout, m_first_frame)
                            @@ RayTracePushConstants)
    /\ content' = [content EXCEPT !["ray_trace"] = Written(num_frames, "ray_trace", -1)]
    /\ layout' = SetLayout(layout, "ray_trace", "SHADER_READ_ONLY_OPTIMAL")
    /\ barriers' = barriers
         \cup { Transition("ray_trace", layout, "ray_trace", "UNDEFINED"),
                Use("ray_trace", SetLayout(layout, "ray_trace", "GENERAL"),
                    "ray_trace", "GENERAL"),
                Transition("ray_trace", SetLayout(layout, "ray_trace", "GENERAL"),
                           "ray_trace", "GENERAL") }
    /\ UNCHANGED << frame_vars, instance_vars, m_first_frame, settings_vars,
                    a_trous_read_idx, local_vars, buffer_vars >>

\* -------------------------------------------------------------- reset_args
\* A reset_args() whose barriers wait for shader reads only.
ResetArgsSrcShaderReadOnly(b) == { "SHADER_READ" }

\* Source access masks of the buffer barriers reset_args() records.
ResetArgsSrcAccess(b) ==
    IF b \in DispatchArgsBuffers
      THEN { "SHADER_READ", "INDIRECT_COMMAND_READ" }
      ELSE { "SHADER_READ" }

\* The buffers reset_args() opens for shader writes before its dispatch.
ResetArgsWrites == Buffers

\* A tile list after the reset-args shader has zeroed its counter.
ResetTileList == {}

ResetArgs ==
    LET barrier == [b \in Buffers |->
                      BufferBarrier(buf_sync, b, ResetArgsSrcAccess(b),
                                    { "SHADER_WRITE" })[b]]
    IN
    /\ pc = "reset_args"
    /\ UNCHANGED << init_vars, host_vars >>
    /\ pc' = "temporal_accumulation"
    /\ log' = Append(log, Entry("reset_args", -1, << >>, << >>,
                                content, layout, m_first_frame)
                            @@ [ buffers_before |-> barrier, writes |-> ResetArgsWrites ])
    /\ buf_sync' = [b \in Buffers |->
                      IF b \in ResetArgsWrites
                        THEN BufferWritten(num_frames) ELSE barrier[b]]
    /\ denoise_tile_coords' = ResetTileList
    /\ copy_tile_coords' = ResetTileList
    /\ UNCHANGED << frame_vars, instance_vars, m_first_frame, settings_vars,
                    a_trous_read_idx, local_vars, content, layout, barriers >>

\* --------------------------------------------------- temporal_accumulation
\* Descriptor set 4 of the reprojection dispatch: the history it samples.
HistoryDs(pp, blur) ==
    IF blur THEN prev_read_ds(Idx(~pp)) ELSE current_read_ds(Idx(~pp))

\* Descriptor set 0 of the reprojection dispatch: the slot it writes.
ReprojectionWriteDs(pp) == current_write_ds(Idx(pp))

\* A trailing barrier that makes every buffer visible to shader reads only.
ReprojectionDstShaderReadOnly(b) == { "SHADER_READ" }

\* Destination access masks of the buffer barriers recorded after the
\* reprojection dispatch.
ReprojectionDstAccess(b) ==
    IF b \in DispatchArgsBuffers THEN { "INDIRECT_COMMAND_READ" } ELSE { "SHADER_READ" }

TemporalAccumulationPushConstants ==
    [ approximate_with_ddgi |-> PushFlag(approximate_with_ddgi, m_first_frame) ]

\* The classification of the reprojection shader: every tile is appended to
\* the denoise list or to the copy list.
Classifications == SUBSET Tiles

TemporalAccumulation ==
    LET wr  == ReprojectionWriteDs(ping_pong)
        hs  == HistoryDs(ping_pong, blur_as_input)
        lay == SetLayout(SetLayout(layout, wr[1], "GENERAL"), wr[2], "GENERAL")
        \* barrier before the dispatch; the dispatch writes all four buffers
        pre  == [b \in Buffers |->
                   BufferBarrier(buf_sync, b, { "SHADER_WRITE" }, { "SHADER_WRITE" })[b]]
        wrtn == [b \in Buffers |-> BufferWritten(num_frames)]
    IN
    /\ pc = "temporal_accumulation"
    /\ UNCHANGED << init_vars, host_vars >>
    /\ pc' = "a_trous_filter"
    /\ log' = Append(log, Entry("reprojection", -1,
                                << "ray_trace", hs[1], hs[2] >>, wr,
                                content, lay, m_first_frame)
                            @@ TemporalAccumulationPushConstants
                            @@ [ buffers_before |-> pre, writes |-> Buffers ])
    /\ \E denoise \in Classifications :
         /\ denoise_tile_coords' = denoise_tile_coords \cup denoise
         /\ copy_tile_coords' = copy_tile_coords \cup (Tiles \ denoise)
    /\ buf_sync' = [b \in Buffers |->
                      BufferBarrier(wrtn, b, { "SHADER_WRITE" },
                                    ReprojectionDstAccess(b))[b]]
    /\ content' = [content EXCEPT ![wr[1]] = Written(num_frames, "reprojection", -1),
                                  ![wr[2]] = Written(num_frames, "reprojection", -1)]
    /\ layout' = SetLayout(SetLayout(lay, wr[1], "SHADER_READ_ONLY_OPTIMAL"),
                           wr[2], "SHADER_READ_ONLY_OPTIMAL")
    /\ barriers' = barriers
         \cup { Transition("reprojection", layout, wr[k], "UNDEFINED") : k \in 1 .. 2 }
         \cup { Use("reprojection", lay, wr[k], "GENERAL") : k \in 1 .. 2 }
         \cup { Use("reprojection", lay, im, "SHADER_READ_ONLY_OPTIMAL") :
                  im \in { "ray_trace", hs[1], hs[2] } }
         \cup { Transition("reprojection", lay, wr[k], "GENERAL") : k \in 1 .. 2 }
    \* entry of a_trous_filter(): its locals are initialised
    /\ iter_i' = 0
    /\ local_ping_pong' = FALSE
    /\ read_idx' = 0
    /\ write_idx' = 1
    /\ UNCHANGED << frame_vars, instance_vars, m_first_frame, settings_vars,
                    a_trous_read_idx >>

\* ---------------------------------------------------------- a_trous_filter
\* A loop that writes the slot it reads.
WriteIdxSameAsRead(pp) == Idx(pp)

\* read_idx = (int32_t)ping_pong and write_idx = (int32_t)!ping_pong.
LoopReadIdx(pp) == Idx(pp)
LoopWriteIdx(pp) == Idx(~pp)

\* A loop that binds the A-Trous read slot in every iteration, the first included.
InputAlwaysATrous(i, pp, ridx) == a_trous_read_ds(ridx)

\* Descriptor set 1 of the copy-tiles and of the filter dispatch of iteration i.
ATrousInputDs(i, pp, ridx) ==
    IF i = 0 THEN output_only_read_ds(Idx(pp)) ELSE a_trous_read_ds(ridx)

\* A loop that copies the output of every iteration into prev_image.
FeedbackCopiesEveryIteration(i) == blur_as_input

\* The condition under which iteration i copies its output into prev_image.
FeedbackCopies(i) == feedback_iteration = i /\ blur_as_input

\* The image barriers recorded at the top of iteration i.
IterationBarrier(lay, i, r, w) ==
    IF i = 0
      THEN SetLayout(lay, a_trous_image(w), "GENERAL")
      ELSE SetLayout(SetLayout(lay, a_trous_image(r), "SHADER_READ_ONLY_OPTIMAL"),
                     a_trous_image(w), "GENERAL")

\* A filter dispatch that takes its work-group count from the copy list.
FilterUsesCopyArgs == "copy_dispatch_args"

\* The buffers handed to vkCmdDispatchIndirect.
CopyTilesDispatchArgs == "copy_dispatch_args"
ATrousDispatchArgs == "denoise_dispatch_args"

\* The tile list whose length an argument buffer holds.
CoordsBuffer(args) ==
    IF args = "copy_dispatch_args" THEN "copy_tile_coords" ELSE "denoise_tile_coords"

TileList(args) ==
    IF args = "copy_dispatch_args" THEN copy_tile_coords ELSE denoise_tile_coords

\* vkCmdDispatchIndirect(args): the state of the buffers it reads and the
\* tiles its work groups process.
DispatchIndirect(args) ==
    [ args |-> args,
      args_sync |-> buf_sync[args],
      coords_sync |-> buf_sync[CoordsBuffer(args)],
      tiles |-> TileList(args) ]

\* A filter that samples neighbouring texels in every iteration.
StepSizeAlwaysOne(i) == 1

\* push_constants.step_size = 1 << i
StepSize(i) == 2 ^ i

ATrousFilterPushConstants(i) ==
    [ step_size |-> StepSize(i),
      approximate_with_ddgi |-> PushFlag(approximate_with_ddgi, m_first_frame) ]

\* The old layouts the barriers at the top of iteration i declare.
IterationTransitions(lay, i, r, w) ==
    IF i = 0
      THEN { Transition("a_trous", lay, a_trous_image(w), "UNDEFINED") }
      ELSE { Transition("a_trous", lay, a_trous_image(r), "GENERAL"),
             Transition("a_trous", lay, a_trous_image(w), "UNDEFINED") }

\* The transitions and the copy of the feedback branch, recorded with the
\* layouts lay in force.
FeedbackTransitions(lay, src) ==
    LET during == SetLayout(SetLayout(lay, src, "TRANSFER_SRC_OPTIMAL"),
                            "prev", "TRANSFER_DST_OPTIMAL")
    IN  { Transition("feedback_copy", lay, src, "GENERAL"),
          Transition("feedback_copy", lay, "prev", "SHADER_READ_ONLY_OPTIMAL"),
          Use("feedback_copy", during, src, "TRANSFER_SRC_OPTIMAL"),
          Use("feedback_copy", during, "prev", "TRANSFER_DST_OPTIMAL"),
          Transition("feedback_copy", during, src, "TRANSFER_SRC_OPTIMAL"),
          Transition("feedback_copy", during, "prev", "TRANSFER_DST_OPTIMAL") }

\* One pass of the for loop of a_trous_filter().
ATrousIteration ==
    LET r    == LoopReadIdx(local_ping_pong)
        w    == LoopWriteIdx(local_ping_pong)
        lay  == IterationBarrier(layout, iter_i, r, w)
        in   == ATrousInputDs(iter_i, ping_pong, r)
        out  == a_trous_write_ds(w)
        copy == Entry("copy_tiles", iter_i, in, out, content, lay, m_first_frame)
                  @@ DispatchIndirect(CopyTilesDispatchArgs)
        filt == Entry("filter", iter_i, in, out, content, lay, m_first_frame)
                  @@ DispatchIndirect(ATrousDispatchArgs)
                  @@ ATrousFilterPushConstants(iter_i)
        cont == [content EXCEPT ![out[1]] = Written(num_frames, "a_trous", iter_i)]
        fb   == Entry("feedback_copy", iter_i, out, << "prev" >>, cont,
                      SetLayout(lay, out[1], "TRANSFER_SRC_OPTIMAL"), m_first_frame)
    IN
    /\ pc = "a_trous_filter"
    /\ UNCHANGED << init_vars, host_vars >>
    /\ iter_i < filter_iterations
    /\ read_idx' = r
    /\ write_idx' = w
    /\ local_ping_pong' = ~local_ping_pong
    /\ iter_i' = iter_i + 1
    /\ IF FeedbackCopies(iter_i)
         THEN /\ content' = [cont EXCEPT !["prev"] = cont[out[1]]]
              \* both images are transitioned back after the copy
              /\ layout' = SetLayout(SetLayout(lay, out[1], "GENERAL"),
                                     "prev", "SHADER_READ_ONLY_OPTIMAL")
              /\ log' = log \o << copy, filt, fb >>
              /\ barriers' = barriers
                   \cup IterationTransitions(layout, iter_i, r, w)
                   \cup { Use("a_trous", lay, in[1], "SHADER_READ_ONLY_OPTIMAL"),
                          Use("a_trous", lay, out[1], "GENERAL") }
                   \cup FeedbackTransitions(lay, out[1])
         ELSE /\ content' = cont
              /\ layout' = lay
              /\ log' = log \o << copy, filt >>
              /\ barriers' = barriers
                   \cup IterationTransitions(layout, iter_i, r, w)
                   \cup { Use("a_trous", lay, in[1], "SHADER_READ_ONLY_OPTIMAL"),
                          Use("a_trous", lay, out[1], "GENERAL") }
    /\ buf_sync' =
         BufferRead(
           BufferRead(
             BufferRead(
               BufferRead(buf_sync, CopyTilesDispatchArgs, "INDIRECT_COMMAND_READ"),
               CoordsBuffer(CopyTilesDispatchArgs), "SHADER_READ"),
             ATrousDispatchArgs, "INDIRECT_COMMAND_READ"),
           CoordsBuffer(ATrousDispatchArgs), "SHADER_READ")
    /\ UNCHANGED << pc, frame_vars, instance_vars, m_first_frame, settings_vars,
                    a_trous_read_idx, denoise_tile_coords, copy_tile_coords >>

\* Storing the slot the last iteration read instead of the one it wrote.
FinalReadIdxStale(r, w) == r

\* The index a_trous_filter() stores into m_a_trous.read_idx after the loop.
FinalReadIdx(r, w) == w

\* After the loop: m_a_trous.read_idx = write_idx and the final barrier.
ATrousFinish ==
    /\ pc = "a_trous_filter"
    /\ UNCHANGED << init_vars, host_vars >>
    /\ ~(iter_i < filter_iterations)
    /\ a_trous_read_idx' = FinalReadIdx(read_idx, write_idx)
    /\ layout' = SetLayout(layout, a_trous_image(write_idx), "SHADER_READ_ONLY_OPTIMAL")
    /\ barriers' = barriers
         \cup { Transition("a_trous_end", layout, a_trous_image(write_idx), "GENERAL") }
    /\ pc' = AfterATrous
    /\ UNCHANGED << frame_vars, instance_vars, m_first_frame, settings_vars,
                    local_vars, content, log, buffer_vars >>

\* ---------------------------------------------------------------- upsample
Upsample ==
    /\ pc = "upsample"
    /\ UNCHANGED << init_vars, host_vars >>
    /\ pc' = "render_done"
    /\ log' = Append(log, Entry("upsample", -1, a_trous_read_ds(a_trous_read_idx),
                                << "upsample" >>, content, layout, m_first_frame))
    /\ content' = [content EXCEPT !["upsample"] = Written(num_frames, "upsample", -1)]
    /\ layout' = SetLayout(layout, "upsample", "SHADER_READ_ONLY_OPTIMAL")
    /\ barriers' = barriers
         \cup { Transition("upsample", layout, "upsample", "UNDEFINED"),
                Use("upsample", SetLayout(layout, "upsample", "GENERAL"),
                    "upsample", "GENERAL"),
                Use("upsample", layout, a_trous_image(a_trous_read_idx),
                    "SHADER_READ_ONLY_OPTIMAL"),
                Transition("upsample", SetLayout(layout, "upsample", "GENERAL"),
                           "upsample", "GENERAL") }
    /\ UNCHANGED << frame_vars, instance_vars, m_first_frame, settings_vars,
                    a_trous_read_idx, local_vars, buffer_vars >>

\* --------------------------------------------------------------- output_ds
\* RayTracedReflections::OutputType.  m_current_output is whatever the
\* "Buffers" combo of the debug GUI selected last; output_ds() is the only
\* reader, so the selection is this operator's argument.
OutputTypes ==
    { "OUTPUT_RAY_TRACE", "OUTPUT_TEMPORAL_ACCUMULATION", "OUTPUT_ATROUS",
      "OUTPUT_UPSAMPLE" }

ray_trace_read_ds == << "ray_trace" >>
upsample_read_ds == << "upsample" >>

\* An output_ds() that hands out the upsample image at every scale.
OutputDsUpsampleAtAnyScale(current_output) ==
    IF m_denoise
      THEN IF current_output = "OUTPUT_RAY_TRACE" THEN ray_trace_read_ds
           ELSE IF current_output = "OUTPUT_TEMPORAL_ACCUMULATION"
                  THEN output_only_read_ds(Idx(ping_pong))
           ELSE IF current_output = "OUTPUT_ATROUS"
                  THEN a_trous_read_ds(a_trous_read_idx)
           ELSE upsample_read_ds
      ELSE ray_trace_read_ds

output_ds(current_output) ==
    IF m_denoise
      THEN IF current_output = "OUTPUT_RAY_TRACE" THEN ray_trace_read_ds
           ELSE IF current_output = "OUTPUT_TEMPORAL_ACCUMULATION"
                  THEN output_only_read_ds(Idx(ping_pong))
           ELSE IF current_output = "OUTPUT_ATROUS"
                  THEN a_trous_read_ds(a_trous_read_idx)
           ELSE IF m_scale = RAY_TRACE_SCALE_FULL_RES
                  THEN a_trous_read_ds(a_trous_read_idx)
                  ELSE upsample_read_ds
      ELSE ray_trace_read_ds

\* ------------------------------------------------ update(): after rendering
\* An update() that never flips the index.
PingPongNotFlipped(pp) == pp

\* The value of ping_pong after submit_and_present().
FlipPingPong(pp) == ~pp

\* vkEndCommandBuffer, submit_and_present, num_frames++, the ping_pong flip.
UpdateEnd ==
    /\ pc = "render_done"
    /\ UNCHANGED << init_vars, host_vars >>
    /\ pc' = "idle"
    /\ num_frames' = num_frames + 1
    /\ ping_pong' = FlipPingPong(ping_pong)
    /\ renders' = renders + 1
    /\ reprojected' = (reprojected \/ \E k \in 1 .. Len(log) : log[k].pass = "reprojection")
    /\ log' = << >>
    /\ barriers' = {}
    /\ UNCHANGED << m_debug_gui, instance, clears, m_first_frame, settings_vars,
                    a_trous_read_idx, local_vars, content, layout, buffer_vars >>

\* ======================================================================
\* HybridRendering::update(), host side: GUI, camera jitter, the render
\* calls, TAA, tone mapping, submit.  The denoiser's own recording is the
\* subject of the actions above; here its render() is one recorded stage.
\* ======================================================================
None == << "none", "none" >>
StageRef(stage) == << "stage", stage >>
TaaRef(k) == << "taa", taa_image(k) >>

\* The stage whose output the visualization shows.
StageOfVisualization(v) ==
    CASE v = "FINAL" -> "deferred_shading"
      [] v = "SHADOWS" -> "ray_traced_shadows"
      [] v = "AMBIENT_OCCLUSION" -> "ray_traced_ao"
      [] v = "REFLECTIONS" -> "ray_traced_reflections"
      [] OTHER -> "ddgi"

\* read_ds of temporal_aa(): the selected stage's output_ds().
temporal_aa_read_ds(v) == StageRef(StageOfVisualization(v))

\* read_ds of tone_map().
tone_map_read_ds(taa_enabled, v, pp) ==
    IF taa_enabled THEN TaaRef(Idx(pp)) ELSE StageRef(StageOfVisualization(v))

\* One pass recorded by update(): what it writes, what it reads, what the
\* image it reads held then, and what the image it writes held before.
HostEntry(pass, writes, reads, seen, before) ==
    [ pass |-> pass, writes |-> writes, reads |-> reads, seen |-> seen,
      before |-> before ]

ContentOf(ref, cont) == IF ref[1] = "taa" THEN cont[ref[2]] ELSE NoWrite

\* The render() calls of update(), in order.
StageOrder ==
    << "g_buffer", "ray_traced_shadows", "ray_traced_ao", "ddgi",
       "ray_traced_reflections", "deferred_shading" >>

StageEntries(order) ==
    [ k \in 1 .. Len(order) |->
        HostEntry(order[k], StageRef(order[k]), None, NoWrite, NoWrite) ]

\* m_taa_reset after the "Enabled" checkbox of the TAA section was clicked.
TaaResetOnCheckbox(reset, enabled) == IF enabled THEN TRUE ELSE reset

\* The GUI section of update(), drawn only under m_debug_gui: the scene
\* combo (with set_active_scene()), the visualization combo, the DDGI scale
\* combo (reset() and a new DDGI), the TAA checkbox.
UpdateGui ==
    /\ pc = "idle"
    /\ num_frames < MaxHostFrames
    /\ pc' = "update_camera"
    /\ host_log' = << >>
    /\ IF m_debug_gui
         THEN \E scene \in Selections(Scenes),
                 vis \in Selections(Visualizations),
                 scale \in Selections(RayTraceScales),
                 clicked \in BOOLEAN :
                /\ m_current_scene' = (IF scene # << >> THEN scene[1] ELSE m_current_scene)
                /\ m_current_visualization' =
                     (IF vis # << >> THEN vis[1] ELSE m_current_visualization)
                /\ LET scened == IF scene # << >> THEN set_active_scene(ddgi, scene[1])
                                                  ELSE ddgi
                   IN  IF scale # << >> THEN ddgi' \in DDGIConstructed(scale[1])
                                        ELSE ddgi' = scened
                /\ m_taa_enabled' = (IF clicked THEN ~m_taa_enabled ELSE m_taa_enabled)
                /\ m_taa_reset' = (IF clicked
                                     THEN TaaResetOnCheckbox(m_taa_reset, ~m_taa_enabled)
                                     ELSE m_taa_reset)
         ELSE UNCHANGED << m_current_scene, m_current_visualization, ddgi,
                           m_taa_enabled, m_taa_reset >>
    /\ UNCHANGED << init_vars, frame_vars, denoiser_vars, jitter_vars,
                    taa_content, size_vars, common_first_frame,
                    m_common_resources >>

\* sample_idx of update_camera().
SampleIdxUnwrapped(n) == n
SampleIdx(n) == n % Len(m_jitter_samples)

\* update_camera(): the jitter of this frame.
UpdateCamera ==
    /\ pc = "update_camera"
    /\ pc' = "render_stages"
    /\ IF m_taa_enabled
         THEN /\ m_prev_jitter' = m_current_jitter
              /\ m_current_jitter' = JitterSample(SampleIdx(num_frames))
         ELSE /\ m_prev_jitter' = ZeroJitter
              /\ m_current_jitter' = ZeroJitter
    /\ UNCHANGED << init_vars, frame_vars, denoiser_vars, taa_vars, scene_vars,
                    size_vars, common_first_frame, host_log,
                    m_common_resources >>

\* The render() calls; temporal_aa() follows only under m_taa_enabled.
RenderStages ==
    /\ pc = "render_stages"
    /\ host_log' = host_log \o StageEntries(StageOrder)
    /\ pc' = (IF m_taa_enabled THEN "temporal_aa" ELSE "tone_map")
    /\ UNCHANGED << init_vars, frame_vars, denoiser_vars, taa_vars, jitter_vars,
                    scene_vars, size_vars, common_first_frame,
                    m_common_resources >>

\* m_taa_reset when temporal_aa() returns: the function never assigns it.
TaaResetCleared(reset) == FALSE
TaaResetAfterPass(reset) == reset

\* temporal_aa(): under m_taa_reset the blit of the deferred-shading output
\* into taa_image[read_idx], then the TAA dispatch writing
\* taa_image[write_idx] from the selected stage and taa_image[read_idx].
TemporalAA ==
    /\ pc = "temporal_aa"
    /\ LET write == TaaRef(Idx(ping_pong))
           read == TaaRef(Idx(~ping_pong))
           blitted == IF m_taa_reset
                        THEN [taa_content EXCEPT ![read[2]] = WrittenBy(num_frames, "blit")]
                        ELSE taa_content
           blit == IF m_taa_reset
                     THEN << HostEntry("taa_blit", read, StageRef("deferred_shading"),
                                       NoWrite, taa_content[read[2]])
                             @@ [input |-> None] >>
                     ELSE << >>
           taa == HostEntry("taa", write, read, blitted[read[2]], blitted[write[2]])
                  @@ [input |-> temporal_aa_read_ds(m_current_visualization)]
       IN  /\ taa_content' = [blitted EXCEPT ![write[2]] = WrittenBy(num_frames, "taa")]
           /\ host_log' = host_log \o blit \o << taa >>
    /\ m_taa_reset' = TaaResetAfterPass(m_taa_reset)
    /\ pc' = "tone_map"
    /\ UNCHANGED << init_vars, frame_vars, denoiser_vars, m_taa_enabled,
                    jitter_vars, scene_vars, size_vars, common_first_frame,
                    m_common_resources >>

\* tone_map(): the copy pipeline drawing read_ds into the swapchain image.
ToneMap ==
    /\ pc = "tone_map"
    /\ LET src == tone_map_read_ds(m_taa_enabled, m_current_visualization, ping_pong)
       IN  host_log' = Append(host_log,
               HostEntry("tone_map", << "swapchain", "swapchain" >>, src,
                         ContentOf(src, taa_content), NoWrite)
               @@ [input |-> None])
    /\ pc' = "submit"
    /\ UNCHANGED << init_vars, frame_vars, denoiser_vars, taa_vars, jitter_vars,
                    scene_vars, size_vars, common_first_frame,
                    m_common_resources >>

\* vkEndCommandBuffer, submit_and_present, num_frames++, first_frame = false,
\* the ping_pong flip.
SubmitAndPresent ==
    /\ pc = "submit"
    /\ pc' = "idle"
    /\ num_frames' = num_frames + 1
    /\ common_first_frame' = FALSE
    /\ ping_pong' = FlipPingPong(ping_pong)
    /\ host_log' = << >>
    /\ UNCHANGED << init_vars, m_debug_gui, denoiser_vars, taa_vars, jitter_vars,
                    scene_vars, size_vars, m_common_resources >>

\* ---------------------------------------------------------------- shutdown
Destroyed ==
    (Components \ components)
    \cup (IF m_common_resources = "reset" THEN { "common_resources" } ELSE {})

\* shutdown(), one reset() per step.
Shutdown ==
    /\ pc \in { "idle", "shutdown" }
    /\ Cardinality(Destroyed) < Len(ShutdownOrder)
    /\ LET next == ShutdownOrder[Cardinality(Destroyed) + 1]
       IN  /\ components' = components \ { next }
           /\ m_common_resources' =
                (IF next = "common_resources" THEN "reset" ELSE m_common_resources)
           /\ pc' = (IF next = ShutdownOrder[Len(ShutdownOrder)] THEN "exit" ELSE "shutdown")
    /\ UNCHANGED << init_result, ubo, meshes, frame_vars, denoiser_vars, taa_vars,
                    jitter_vars, scene_vars, size_vars, common_first_frame,
                    host_log >>

\* ======================================================================
\* The older frame loop (HybridRendering::update() before the components
\* were split into classes).
\* ======================================================================
\* The GUI of the older loop: the TAA checkbox only toggles m_taa_enabled.
OldUpdateGui ==
    /\ pc = "idle"
    /\ num_frames < MaxHostFrames
    /\ pc' = "update_camera"
    /\ host_log' = << >>
    /\ IF m_debug_gui
         THEN \E clicked \in BOOLEAN :
                m_taa_enabled' = (IF clicked THEN ~m_taa_enabled ELSE m_taa_enabled)
         ELSE UNCHANGED m_taa_enabled
    /\ UNCHANGED << init_vars, frame_vars, denoiser_vars, m_taa_reset, taa_content,
                    jitter_vars, scene_vars, size_vars, common_first_frame,
                    m_common_resources >>

\* The passes the older update() records before temporal_aa().
OldStageOrder ==
    << "clear_images", "render_gbuffer", "downsample_gbuffer",
       "ray_trace_shadows", "ray_trace_ambient_occlusion", "shadow_denoiser",
       "ray_trace_reflection", "reflection_denoiser", "ray_trace_gi",
       "svgf_gi_denoiser", "deferred_shading", "render_skybox" >>

OldRenderStages ==
    /\ pc = "render_stages"
    /\ host_log' = host_log \o StageEntries(OldStageOrder)
    /\ pc' = "temporal_aa"
    /\ UNCHANGED << init_vars, frame_vars, denoiser_vars, taa_vars, jitter_vars,
                    scene_vars, size_vars, common_first_frame,
                    m_common_resources >>

\* The else branch of the older temporal_aa(): the blit of deferred_image
\* into taa_image[write_idx].
NoPassThrough(cont, image, frame) == cont
PassThrough(cont, image, frame) ==
    [cont EXCEPT ![image] = WrittenBy(frame, "pass_through")]

\* The older temporal_aa(): with TAA enabled the seed blit into
\* taa_image[read_idx] in the first frame and the TAA dispatch; with TAA
\* disabled the pass-through blit.
OldTemporalAA ==
    /\ pc = "temporal_aa"
    /\ LET write == TaaRef(Idx(ping_pong))
           read == TaaRef(Idx(~ping_pong))
           seeded == IF common_first_frame
                       THEN [taa_content EXCEPT ![read[2]] = WrittenBy(num_frames, "seed")]
                       ELSE taa_content
           seed == IF common_first_frame
                     THEN << HostEntry("taa_blit", read, StageRef("deferred_shading"),
                                       NoWrite, taa_content[read[2]]) >>
                     ELSE << >>
       IN  IF m_taa_enabled
             THEN /\ taa_content' = [seeded EXCEPT ![write[2]] = WrittenBy(num_frames, "taa")]
                  /\ host_log' = host_log \o seed \o
                        << HostEntry("taa", write, read, seeded[read[2]], seeded[write[2]]) >>
             ELSE /\ taa_content' = PassThrough(taa_content, write[2], num_frames)
                  /\ host_log' = Append(host_log,
                        HostEntry("pass_through", write, StageRef("deferred_shading"),
                                  NoWrite, taa_content[write[2]]))
    /\ pc' = "tone_map"
    /\ UNCHANGED << init_vars, frame_vars, denoiser_vars, m_taa_enabled, m_taa_reset,
                    jitter_vars, scene_vars, size_vars, common_first_frame,
                    m_common_resources >>

\* The older tone_map(): always taa_read_ds[m_ping_pong].
OldToneMap ==
    /\ pc = "tone_map"
    /\ LET src == TaaRef(Idx(ping_pong))
       IN  host_log' = Append(host_log,
               HostEntry("tone_map", << "swapchain", "swapchain" >>, src,
                         ContentOf(src, taa_content), NoWrite))
    /\ pc' = "submit"
    /\ UNCHANGED << init_vars, frame_vars, denoiser_vars, taa_vars, jitter_vars,
                    scene_vars, size_vars, common_first_frame,
                    m_common_resources >>

\* ======================================================================
\* The tile-coordinate buffers against the reprojection dispatch.
\* ======================================================================
\* create_buffers()
CreateBuffers ==
    /\ pc = "create_buffers"
    /\ buffer_size' = [b \in TileCoordsBuffers |-> TileCoordsBufferSize(m_width, m_height)]
    /\ pc' = "reprojection_dispatch"
    /\ UNCHANGED << init_vars, frame_vars, denoiser_vars, taa_vars, jitter_vars,
                    scene_vars, m_width, m_height, work_groups, tiles_appended,
                    common_first_frame, host_log, m_common_resources >>

\* The vkCmdDispatch of temporal_accumulation().
DispatchReprojection ==
    /\ pc = "reprojection_dispatch"
    /\ work_groups' = ReprojectionWorkGroups(m_width, m_height)
    /\ pc' = "classify"
    /\ UNCHANGED << init_vars, frame_vars, denoiser_vars, taa_vars, jitter_vars,
                    scene_vars, m_width, m_height, buffer_size, tiles_appended,
                    common_first_frame, host_log, m_common_resources >>

\* The entries one tile list receives when every work group appends at most
\* one tile to it.
AppendedTiles(groups) == 0 .. (groups[1] * groups[2])

\* The reprojection shader's classification.
Classify ==
    /\ pc = "classify"
    /\ tiles_appended' \in AppendedTiles(work_groups)
    /\ pc' = "classified"
    /\ UNCHANGED << init_vars, frame_vars, denoiser_vars, taa_vars, jitter_vars,
                    scene_vars, m_width, m_height, buffer_size, work_groups,
                    common_first_frame, host_log, m_common_resources >>

Next ==
    \/ KeyPressed
    \/ UpdateBegin
    \/ ClearImages
    \/ RayTrace
    \/ ResetArgs
    \/ TemporalAccumulation
    \/ ATrousIteration
    \/ ATrousFinish
    \/ Upsample
    \/ UpdateEnd

Spec == Init /\ [][Next]_vars

\* The application from the entry of init() on.
NextApp ==
    \/ CreateUniformBuffer
    \/ LoadMesh
    \/ ConstructComponents
    \/ KeyPressed
    \/ UpdateBegin
    \/ ClearImages
    \/ RayTrace
    \/ ResetArgs
    \/ TemporalAccumulation
    \/ ATrousIteration
    \/ ATrousFinish
    \/ Upsample
    \/ UpdateEnd

SpecApp == InitApp /\ [][NextApp]_vars

\* The denoiser settings held fixed while the host side is explored.
DenoiserAtRest ==
    /\ Constructed
    /\ filter_iterations = 1
    /\ feedback_iteration = 1
    /\ ~sample_gi
    /\ ~approximate_with_ddgi

\* The host side of the class-based frame loop, from the first update() to
\* shutdown().
InitHost ==
    /\ pc = "idle"
    /\ init_result = "true"
    /\ ubo = "created"
    /\ meshes = NumMeshes
    /\ components = Components
    /\ DenoiserAtRest
    /\ HostFields(TRUE, RAY_TRACE_SCALE_FULL_RES)
    /\ BuffersCreated(MaxExtent, MaxExtent)

NextHost ==
    \/ KeyPressed
    \/ UpdateGui
    \/ UpdateCamera
    \/ RenderStages
    \/ TemporalAA
    \/ ToneMap
    \/ SubmitAndPresent
    \/ Shutdown

SpecHost == InitHost /\ [][NextHost]_vars

\* m_first_frame of the older HybridRendering when update() first runs.
OldInitialFirstFrame == TRUE

\* The older frame loop; the initial TAA setting is a member initialiser.
InitOld ==
    /\ pc = "idle"
    /\ init_result = "true"
    /\ ubo = "created"
    /\ meshes = NumMeshes
    /\ components = Components
    /\ DenoiserAtRest
    /\ \E taa_enabled \in BOOLEAN : HostFields(taa_enabled, RAY_TRACE_SCALE_FULL_RES)
    /\ common_first_frame = OldInitialFirstFrame
    /\ BuffersCreated(MaxExtent, MaxExtent)

NextOld ==
    \/ KeyPressed
    \/ OldUpdateGui
    \/ UpdateCamera
    \/ OldRenderStages
    \/ OldTemporalAA
    \/ OldToneMap
    \/ SubmitAndPresent

SpecOld == InitOld /\ [][NextOld]_vars

\* The constructor of RayTracedReflections at every working resolution up
\* to MaxExtent x MaxExtent, followed by the first reprojection.
InitBuffers ==
    /\ pc = "create_buffers"
    /\ init_result = "true"
    /\ ubo = "created"
    /\ meshes = NumMeshes
    /\ components = Components
    /\ DenoiserAtRest
    /\ HostFields(TRUE, RAY_TRACE_SCALE_FULL_RES)
    /\ m_width \in 1 .. MaxExtent
    /\ m_height \in 1 .. MaxExtent
    /\ buffer_size = [b \in TileCoordsBuffers |-> 0]
    /\ work_groups = << 0, 0 >>
    /\ tiles_appended = 0

NextBuffers ==
    \/ CreateBuffers
    \/ DispatchReprojection
    \/ Classify

SpecBuffers == InitBuffers /\ [][NextBuffers]_vars

TypeOK ==
    /\ pc \in { "create_uniform_buffer", "load_mesh", "construct", "exit", "idle", "clear_images", "ray_trace", "reset_args",
                "temporal_accumulation", "a_trous_filter", "upsample",
                "render_done", "update_camera", "render_stages", "temporal_aa",
                "tone_map", "submit", "shutdown", "create_buffers",
                "reprojection_dispatch", "classify", "classified" }
    /\ num_frames \in Nat
    /\ ping_pong \in BOOLEAN
    /\ m_scale \in RayTraceScales
    /\ a_trous_read_idx \in 0 .. 1
    /\ \A im \in Images : layout[im] \in Layouts

\* ======================================================================
\* Properties
\* ======================================================================
Recording ==
    pc \in { "ray_trace", "reset_args", "temporal_accumulation", "a_trous_filter",
             "upsample", "render_done" }

LogIndices == 1 .. Len(log)
Reprojections == { k \in LogIndices : log[k].pass = "reprojection" }
Dispatches == { k \in LogIndices : log[k].pass \in { "copy_tiles", "filter" } }

\* C1: in every frame after the instance's first in which reprojection is
\* recorded, the history colour image bound to it was written by the
\* denoiser in the immediately preceding frame.
C1_HistoryFromPrecedingFrame ==
    \A k \in Reprojections :
        (renders >= 1 /\ reprojected) =>
            /\ log[k].seen[2].st = "written"
            /\ log[k].seen[2].frame = num_frames - 1

\* C2: every history image reprojection reads (colour and moments) has been
\* cleared or written since the instance was constructed.
C2_HistoryInitialised ==
    \A k \in Reprojections :
        /\ log[k].seen[2].st # "undef"
        /\ log[k].seen[3].st # "undef"

RECURSIVE ExpectedIterations(_)
ExpectedIterations(i) ==
    IF i >= filter_iterations
      THEN << >>
      ELSE << << "copy_tiles", i >>, << "filter", i >> >>
           \o (IF blur_as_input /\ feedback_iteration = i
                 THEN << << "feedback_copy", i >> >> ELSE << >>)
           \o ExpectedIterations(i + 1)

ExpectedPasses ==
    (IF renders = 0 THEN << << "clear_images", -1 >> >> ELSE << >>)
    \o << << "ray_trace", -1 >>, << "reset_args", -1 >>, << "reprojection", -1 >> >>
    \o ExpectedIterations(0)
    \o (IF m_scale # RAY_TRACE_SCALE_FULL_RES THEN << << "upsample", -1 >> >> ELSE << >>)

RecordedPasses == [k \in LogIndices |-> << log[k].pass, log[k].it >>]

\* C3: with denoise enabled render() records clear (first frame only), ray
\* trace, reset-args, reprojection, per iteration copy-tiles, filter and the
\* optional feedback copy, then upsample; reset-args is recorded once and
\* before reprojection, and no indirect dispatch precedes reprojection.
C3_PassOrder ==
    /\ (pc = "render_done" /\ m_denoise) => RecordedPasses = ExpectedPasses
    /\ Cardinality({ k \in LogIndices : log[k].pass = "reset_args" }) <= 1
    /\ \A k \in Reprojections : \E j \in 1 .. (k - 1) : log[j].pass = "reset_args"
    /\ \A k \in Dispatches : \E j \in 1 .. (k - 1) : log[j].pass = "reprojection"

C3_Witness ==
    /\ pc = "render_done"
    /\ m_denoise
    /\ renders = 0
    /\ filter_iterations >= 2
    /\ blur_as_input
    /\ feedback_iteration = 0
    /\ m_scale # RAY_TRACE_SCALE_FULL_RES
    /\ Len(log) = 10

\* C4: m_first_frame is true while every pass of the instance's first
\* render() is recorded, and false only after that render() has completed.
C4_FirstFrameThroughFirstRender ==
    /\ (renders = 0 /\ pc # "idle") => m_first_frame
    /\ \A k \in LogIndices : renders = 0 => log[k].first_frame

\* C5: the zero-clear of prev_image and of slot !ping_pong is recorded
\* exactly once per instance, in its first render() whether or not denoise
\* is enabled, and in no later frame.
C5_ClearedOncePerInstance ==
    /\ clears = (IF renders = 0 /\ ~Recording THEN 0 ELSE 1)
    /\ \A k \in LogIndices :
         log[k].pass = "clear_images" =>
            /\ renders = 0
            /\ k = 1
            /\ log[k].out = << "prev", current_output_image(Idx(~ping_pong)),
                               current_moments_image(Idx(~ping_pong)) >>
    /\ (renders = 0 /\ Recording) => log[1].pass = "clear_images"

C5_Witness ==
    /\ renders >= 2
    /\ pc = "render_done"
    /\ clears = 1
    /\ \A k \in LogIndices : log[k].pass # "clear_images"

\* The moments slot the reprojection of the preceding frame wrote.
WrittenLastFrame(slot) ==
    content[current_moments_image(slot)] = Written(num_frames - 1, "reprojection", -1)

C6_Slots ==
    /\ \A k \in Reprojections :
         /\ log[k].out = << current_output_image(Idx(ping_pong)),
                            current_moments_image(Idx(ping_pong)) >>
         /\ log[k].in[3] = current_moments_image(Idx(~ping_pong))
         /\ ~blur_as_input => log[k].in[2] = current_output_image(Idx(~ping_pong))
         /\ log[k].out[1] # log[k].in[2]
         /\ log[k].out[2] # log[k].in[3]
    /\ pc = "temporal_accumulation" =>
         \A slot \in 0 .. 1 : WrittenLastFrame(slot) => slot = Idx(~ping_pong)

C6_Step ==
    IF pc = "render_done" THEN ping_pong' = ~ping_pong ELSE ping_pong' = ping_pong

\* C6: ping_pong flips exactly once per update(), after the submit, and
\* never while a frame is recorded; reprojection writes slot ping_pong and
\* reads slot !ping_pong, and the slot written in frame N is the slot read
\* in frame N+1.
C6_PingPongFlipsOncePerUpdate == [](C6_Slots) /\ [][C6_Step]_vars

C6_Witness ==
    /\ pc = "a_trous_filter"
    /\ num_frames >= 1
    /\ \E k \in Reprojections :
         /\ log[k].in[2] = current_output_image(Idx(~ping_pong))
         /\ log[k].seen[2] = Written(num_frames - 1, "reprojection", -1)
         /\ log[k].seen[3] = Written(num_frames - 1, "reprojection", -1)

\* C7: a scale selection leaves a new instance in the Constructed state
\* before any pass of the frame is recorded, its first render() clears its
\* history, and reprojection never reads anything the new instance has not
\* itself cleared or written (a fresh image holds whatever its memory held,
\* which after a recreation may be the destroyed instance's history).
C7_RecreatedInstanceReadsOwnHistory ==
    /\ (renders = 0 /\ pc = "clear_images") => (m_first_frame /\ log = << >>)
    /\ (renders = 0 /\ Recording) => log[1].pass = "clear_images"
    /\ instance >= 1 =>
         \A k \in Reprojections :
            /\ log[k].seen[2].st # "undef"
            /\ log[k].seen[3].st # "undef"

\* C8 as stated: every iteration i reads A-Trous slot i%2 and writes
\* A-Trous slot (i+1)%2.
C8_EveryIterationReadsATrousSlot ==
    \A k \in Dispatches :
        /\ log[k].in = << a_trous_image(log[k].it % 2) >>
        /\ log[k].out = << a_trous_image((log[k].it + 1) % 2) >>

\* C8 amended: every iteration i writes A-Trous slot (i+1)%2; every
\* iteration i >= 1 reads A-Trous slot i%2; iteration 0 reads the
\* reprojection output of slot ping_pong and no A-Trous slot.
C8_IterationSlots ==
    /\ \A k \in Dispatches :
         /\ log[k].out = << a_trous_image((log[k].it + 1) % 2) >>
         /\ log[k].it >= 1 => log[k].in = << a_trous_image(log[k].it % 2) >>
         /\ log[k].it = 0 => log[k].in = << current_output_image(Idx(ping_pong)) >>
    /\ (pc = "a_trous_filter" /\ iter_i >= 1) =>
         /\ read_idx = (iter_i - 1) % 2
         /\ write_idx = iter_i % 2

C8_Witness ==
    \E k \in Dispatches :
        /\ log[k].pass = "filter"
        /\ log[k].it = 1
        /\ log[k].in = << "a_trous_1" >>
        /\ log[k].out = << "a_trous_0" >>

AfterATrousFilter == m_denoise /\ pc \in { "upsample", "render_done" }

\* C9: after a_trous_filter() with n >= 1 iterations m_a_trous.read_idx is
\* the slot the last iteration wrote (n % 2), and that image is in the
\* shader-read layout when upsample is recorded and when output_ds() is used.
C9_ReadIdxIsLastWritten ==
    /\ (AfterATrousFilter /\ filter_iterations >= 1) =>
         /\ a_trous_read_idx = filter_iterations % 2
         /\ content[a_trous_image(a_trous_read_idx)]
              = Written(num_frames, "a_trous", filter_iterations - 1)
         /\ layout[a_trous_image(a_trous_read_idx)] = "SHADER_READ_ONLY_OPTIMAL"
    /\ \A k \in LogIndices :
         (log[k].pass = "upsample" /\ filter_iterations >= 1) =>
            /\ log[k].in = << a_trous_image(filter_iterations % 2) >>
            /\ log[k].seen[1] = Written(num_frames, "a_trous", filter_iterations - 1)
            /\ log[k].lay[1] = "SHADER_READ_ONLY_OPTIMAL"

C9_Witness ==
    /\ pc = "render_done"
    /\ filter_iterations = 2
    /\ a_trous_read_idx = 0
    /\ \E k \in LogIndices : log[k].pass = "upsample" /\ log[k].in = << "a_trous_0" >>

\* C10: in the copy-tiles and in the filter dispatch, iteration 0 reads the
\* reprojection output of this frame (slot ping_pong) and iteration i > 0
\* reads the image iteration i-1 wrote.
C10_IterationInput ==
    \A k \in Dispatches :
        /\ log[k].it = 0 =>
             /\ log[k].in = << current_output_image(Idx(ping_pong)) >>
             /\ log[k].seen[1] = Written(num_frames, "reprojection", -1)
        /\ log[k].it > 0 =>
             /\ log[k].seen[1] = Written(num_frames, "a_trous", log[k].it - 1)
             /\ \E j \in Dispatches :
                  /\ j < k
                  /\ log[j].pass = "filter"
                  /\ log[j].it = log[k].it - 1
                  /\ log[j].out = log[k].in

C10_Witness ==
    /\ \E k \in Dispatches : log[k].pass = "copy_tiles" /\ log[k].it = 0
    /\ \E k \in Dispatches : log[k].pass = "copy_tiles" /\ log[k].it = 1
    /\ \E k \in Dispatches : log[k].pass = "filter" /\ log[k].it = 1

Upsamples == { k \in LogIndices : log[k].pass = "upsample" }
FeedbackCopyEntries == { k \in LogIndices : log[k].pass = "feedback_copy" }

\* C11: with filter_iterations = 0 the image exposed as the A-Trous result
\* (output_ds() with OUTPUT_ATROUS, and the input of upsample) is this
\* frame's temporal-accumulation output.
C11_ZeroIterationsIsIdentity ==
    /\ (AfterATrousFilter /\ filter_iterations = 0) =>
         content[output_ds("OUTPUT_ATROUS")[1]] = Written(num_frames, "reprojection", -1)
    /\ \A k \in Upsamples :
         filter_iterations = 0 => log[k].seen[1] = Written(num_frames, "reprojection", -1)

\* C12: with blur_as_input and feedback_iteration = k < filter_iterations,
\* prev_image holds after the frame what A-Trous iteration k wrote; the copy
\* is recorded right after the filter dispatch of iteration k and before any
\* dispatch of iteration k+1.
C12_FeedbackTap ==
    /\ (pc = "render_done" /\ m_denoise /\ blur_as_input
          /\ feedback_iteration < filter_iterations) =>
         /\ content["prev"] = Written(num_frames, "a_trous", feedback_iteration)
         /\ content["prev"] # Written(num_frames, "reprojection", -1)
         /\ \E k \in FeedbackCopyEntries : log[k].it = feedback_iteration
    /\ \A k \in FeedbackCopyEntries :
         /\ log[k].it = feedback_iteration
         /\ k > 1
         /\ log[k - 1].pass = "filter"
         /\ log[k - 1].it = log[k].it
         /\ log[k].in = log[k - 1].out
         /\ log[k].seen[1] = Written(num_frames, "a_trous", log[k].it)
         /\ \A j \in Dispatches : log[j].it > log[k].it => j > k

C12_Witness ==
    /\ pc = "render_done"
    /\ filter_iterations = 2
    /\ feedback_iteration = 0
    /\ content["prev"] = Written(num_frames, "a_trous", 0)
    /\ \E k \in FeedbackCopyEntries : log[k + 1].pass = "copy_tiles" /\ log[k + 1].it = 1

\* C13: in every frame in which the denoiser runs with blur_as_input,
\* prev_image is overwritten exactly once from that frame's output, whatever
\* feedback_iteration and filter_iterations are.
C13_HistoryOverwrittenEachFrame ==
    (pc = "render_done" /\ m_denoise /\ blur_as_input) =>
        /\ Cardinality(FeedbackCopyEntries) = 1
        /\ content["prev"].st = "written"
        /\ content["prev"].frame = num_frames

\* C14: whatever output stage is selected, the image output_ds() hands out
\* after render() was written during that render() and is in the
\* shader-read layout.
C14_OutputWrittenThisFrame ==
    pc = "render_done" =>
        \A cur \in OutputTypes :
            /\ content[output_ds(cur)[1]].st = "written"
            /\ content[output_ds(cur)[1]].frame = num_frames
            /\ layout[output_ds(cur)[1]] = "SHADER_READ_ONLY_OPTIMAL"

\* C15 as stated: upsample is recorded iff denoise is on and the scale is not
\* full resolution; at full resolution OUTPUT_UPSAMPLE returns the A-Trous
\* result and never the upsample image.
C15_FullResUpsampleIsATrous ==
    pc = "render_done" =>
        /\ (Upsamples # {}) <=> (m_denoise /\ m_scale # RAY_TRACE_SCALE_FULL_RES)
        /\ m_scale = RAY_TRACE_SCALE_FULL_RES =>
             /\ output_ds("OUTPUT_UPSAMPLE") = a_trous_read_ds(a_trous_read_idx)
             /\ output_ds("OUTPUT_UPSAMPLE") # upsample_read_ds

\* C15 amended: upsample is recorded iff denoise is on and the scale is not
\* full resolution; at full resolution OUTPUT_UPSAMPLE returns the A-Trous
\* result when denoise is on and the ray-trace image when it is off, and no
\* selection returns the upsample image.
C15_UpsampleOnlyBelowFullRes ==
    pc = "render_done" =>
        /\ Cardinality(Upsamples) =
             (IF m_denoise /\ m_scale # RAY_TRACE_SCALE_FULL_RES THEN 1 ELSE 0)
        /\ m_scale = RAY_TRACE_SCALE_FULL_RES =>
             /\ m_denoise => output_ds("OUTPUT_UPSAMPLE") = a_trous_read_ds(a_trous_read_idx)
             /\ ~m_denoise => output_ds("OUTPUT_UPSAMPLE") = ray_trace_read_ds
             /\ \A cur \in OutputTypes : output_ds(cur) # upsample_read_ds

C15_Witness ==
    /\ pc = "render_done"
    /\ m_denoise
    /\ m_scale = RAY_TRACE_SCALE_FULL_RES
    /\ filter_iterations >= 1
    /\ Upsamples = {}
    /\ output_ds("OUTPUT_UPSAMPLE") = a_trous_read_ds(filter_iterations % 2)

\* C16: every indirect dispatch of copy-tiles and of the filter is recorded
\* when the last shader write of this frame to its argument buffer has been
\* made visible to indirect-command reads, and the last shader write of this
\* frame to its tile-coordinate buffer has been made visible to shader reads.
C16_IndirectArgsSynchronised ==
    \A k \in Dispatches :
        /\ log[k].args = (IF log[k].pass = "copy_tiles"
                            THEN "copy_dispatch_args" ELSE "denoise_dispatch_args")
        /\ log[k].args_sync.frame = num_frames
        /\ "INDIRECT_COMMAND_READ" \in log[k].args_sync.visible
        /\ log[k].coords_sync.frame = num_frames
        /\ "SHADER_READ" \in log[k].coords_sync.visible

C16_Witness ==
    /\ num_frames >= 1
    /\ \E k \in Dispatches :
         /\ log[k].pass = "filter"
         /\ log[k].it = 1
         /\ log[k].args_sync.visible = { "INDIRECT_COMMAND_READ" }
         /\ log[k].args_sync.frame = num_frames

\* C17: in every frame the denoise list and the copy list together hold
\* every tile exactly once, so the copy-tiles and the filter dispatch of one
\* iteration, recorded back to back on the same image, never write the same
\* tile and leave no tile unwritten.
C17_TilesCoveredOnce ==
    /\ (m_denoise /\ pc \in { "a_trous_filter", "upsample", "render_done" }) =>
         /\ denoise_tile_coords \cap copy_tile_coords = {}
         /\ denoise_tile_coords \cup copy_tile_coords = Tiles
    /\ \A k \in Dispatches :
         log[k].pass = "copy_tiles" =>
            /\ k + 1 \in Dispatches
            /\ log[k + 1].pass = "filter"
            /\ log[k + 1].it = log[k].it
            /\ log[k + 1].out = log[k].out
            /\ log[k].tiles \cap log[k + 1].tiles = {}
            /\ log[k].tiles \cup log[k + 1].tiles = Tiles

C17_Witness ==
    /\ num_frames >= 1
    /\ \E k \in Dispatches :
         /\ log[k].pass = "copy_tiles"
         /\ log[k].tiles # {}
         /\ log[k + 1].tiles # {}

\* C19: iteration i of the filter is dispatched with step_size = 2^i, so the
\* step size is 1 in iteration 0 and doubles from one iteration to the next.
C19_StepSizeDoubles ==
    \A k \in Dispatches :
        log[k].pass = "filter" =>
            /\ log[k].step_size = 2 ^ log[k].it
            /\ log[k].it = 0 => log[k].step_size = 1
            /\ \A j \in Dispatches :
                 (log[j].pass = "filter" /\ log[j].it = log[k].it + 1) =>
                    log[j].step_size = 2 * log[k].step_size

C19_Witness ==
    \E k \in Dispatches :
        log[k].pass = "filter" /\ log[k].it = 1 /\ log[k].step_size = 2

PushEntries == { k \in LogIndices : log[k].pass \in { "ray_trace", "reprojection", "filter" } }

\* C20: in the first render() of an instance the sample_gi and
\* approximate_with_ddgi push constants of the ray trace, of reprojection
\* and of every filter iteration are 0 whatever the settings are; from the
\* second frame on they equal the settings.
C20_FlagsForcedOffInFirstFrame ==
    \A k \in PushEntries :
        /\ renders = 0 =>
             /\ log[k].approximate_with_ddgi = 0
             /\ log[k].pass = "ray_trace" => log[k].sample_gi = 0
        /\ renders >= 1 =>
             /\ log[k].approximate_with_ddgi = Idx(approximate_with_ddgi)
             /\ log[k].pass = "ray_trace" => log[k].sample_gi = Idx(sample_gi)

\* init() is no longer running.
InitLeft == pc \notin { "create_uniform_buffer", "load_mesh", "construct" }

\* C18: if creating the uniform buffer or loading any mesh fails, init()
\* returns false and no renderer component has been constructed; init()
\* returns true only after every component has been constructed.
C18_InitFailsBeforeComponents ==
    /\ (InitLeft /\ (ubo = "failed" \/ meshes < NumMeshes)) =>
         /\ init_result = "false"
         /\ components = {}
    /\ init_result = "false" => components = {}
    /\ init_result = "true" => components = Components

\* C21: every recorded layout transition declares UNDEFINED or the layout
\* the image is in, and every image a pass uses is in the layout its
\* descriptor (or the copy command) declares, for all filter_iterations,
\* feedback_iteration and toggling of denoise and blur_as_input.
C21_LayoutsMatch ==
    \A b \in barriers :
        /\ b.kind = "transition" => (b.declared = "UNDEFINED" \/ b.declared = b.actual)
        /\ b.kind = "use" => b.declared = b.actual

BufferWriters == { k \in LogIndices : "writes" \in DOMAIN log[k] }

\* No write of the entry overlaps an earlier access: every earlier read has
\* been ordered before it and the earlier write has been made available to it.
WritesOrdered(k) ==
    \A b \in log[k].writes :
        /\ log[k].buffers_before[b].reads = {}
        /\ \/ log[k].buffers_before[b].frame = -1
           \/ "SHADER_WRITE" \in log[k].buffers_before[b].visible

\* Every buffer the dispatch reads holds this frame's write, made visible to
\* the access that reads it.
ReadsOrdered(k) ==
    /\ log[k].args_sync.frame = num_frames
    /\ "INDIRECT_COMMAND_READ" \in log[k].args_sync.visible
    /\ log[k].coords_sync.frame = num_frames
    /\ "SHADER_READ" \in log[k].coords_sync.visible

\* C22 as stated: per frame the argument and coordinate buffers are written
\* by exactly one pass, reprojection, and read by exactly two passes,
\* copy-tiles and the filter; no write overlaps a read.
C22_OneWriterTwoReaders ==
    (pc = "render_done" /\ m_denoise) =>
        /\ BufferWriters = Reprojections
        /\ Cardinality(BufferWriters) = 1
        /\ Cardinality(Dispatches) = 2
        /\ \A k \in BufferWriters : WritesOrdered(k)
        /\ \A k \in Dispatches : ReadsOrdered(k)

\* C22 amended: per frame in which the denoiser runs the buffers are written
\* by two passes, reset-args and then reprojection, and read only by the
\* copy-tiles and filter dispatches, one of each per iteration, all after
\* both writes; no write overlaps a read.
C22_WritersBeforeReaders ==
    /\ \A k \in BufferWriters : WritesOrdered(k)
    /\ \A k \in Dispatches :
         /\ ReadsOrdered(k)
         /\ \A j \in BufferWriters : j < k
    /\ (pc = "render_done" /\ m_denoise) =>
         /\ Cardinality(BufferWriters) = 2
         /\ \E j, k \in BufferWriters :
              j < k /\ log[j].pass = "reset_args" /\ log[k].pass = "reprojection"
         /\ Cardinality(Dispatches) = 2 * filter_iterations
    /\ \A k \in LogIndices :
         (k \notin BufferWriters /\ k \notin Dispatches) =>
            ("args_sync" \notin DOMAIN log[k])

C22_Witness ==
    /\ pc = "render_done"
    /\ filter_iterations = 2
    /\ \E k \in BufferWriters :
         /\ log[k].pass = "reset_args"
         /\ log[k].buffers_before["copy_dispatch_args"].frame = num_frames - 1
         /\ log[k].buffers_before["copy_dispatch_args"].visible = { "SHADER_WRITE" }

\* What the denoiser owns besides the raw ray-trace image and the history
\* the first-frame clear resets.
DenoiserOnlyImages ==
    { "a_trous_0", "a_trous_1", "upsample",
      current_output_image(Idx(ping_pong)), current_moments_image(Idx(ping_pong)) }

C23_Recorded ==
    (pc = "render_done" /\ ~m_denoise) =>
        /\ RecordedPasses =
             (IF renders = 0 THEN << << "clear_images", -1 >> >> ELSE << >>)
             \o << << "ray_trace", -1 >> >>
        /\ \A cur \in OutputTypes : output_ds(cur) = ray_trace_read_ds

C23_Step ==
    (~m_denoise /\ pc \in { "clear_images", "ray_trace" }) =>
        /\ buf_sync' = buf_sync
        /\ denoise_tile_coords' = denoise_tile_coords
        /\ copy_tile_coords' = copy_tile_coords
        /\ a_trous_read_idx' = a_trous_read_idx
        /\ \A im \in DenoiserOnlyImages :
             content'[im] = content[im] /\ layout'[im] = layout[im]
        /\ \A im \in Images \ (DenoiserOnlyImages \cup { "ray_trace" }) :
             \/ content'[im] = content[im] /\ layout'[im] = layout[im]
             \/ /\ pc = "clear_images"
                /\ m_first_frame
                /\ content'[im] = Cleared(num_frames)
        /\ pc = "ray_trace" => pc' \in { "ray_trace", "render_done" }

\* C23: with denoise disabled render() records only the first-frame clear
\* and the ray trace; apart from what that clear resets it leaves both
\* reprojection slots, prev_image, the tile and argument buffers, the
\* A-Trous images, the upsample image and m_a_trous.read_idx as they were,
\* and output_ds() returns the ray-trace descriptor for every selection.
C23_DenoiseOffOnlyRayTraces == [](C23_Recorded) /\ [][C23_Step]_vars

C23_Witness ==
    /\ pc = "render_done"
    /\ ~m_denoise
    /\ renders >= 1
    /\ Len(log) = 1
    /\ content["a_trous_0"] = Written(num_frames - 1, "a_trous", 1)
    /\ a_trous_read_idx = 0

HostLogIndices == 1 .. Len(host_log)
TaaPasses == { k \in HostLogIndices : host_log[k].pass = "taa" }
TaaBlits == { k \in HostLogIndices : host_log[k].pass = "taa_blit" }
ToneMaps == { k \in HostLogIndices : host_log[k].pass = "tone_map" }

\* C24: in the class-based loop m_taa_reset, once true, stays true, and every
\* frame in which the TAA pass is recorded also records, before it, the blit
\* of the deferred-shading output into TAA slot !ping_pong.
C24_BlitRecorded ==
    \A k \in TaaPasses :
        \E j \in TaaBlits :
            /\ j < k
            /\ host_log[j].writes = TaaRef(Idx(~ping_pong))
            /\ host_log[j].reads = StageRef("deferred_shading")
            /\ host_log[k].seen = WrittenBy(num_frames, "blit")

C24_ResetStays == m_taa_reset => m_taa_reset'

C24_TaaResetNeverCleared == [](C24_BlitRecorded) /\ [][C24_ResetStays]_vars

\* The blit overwrote what the TAA pass of the preceding frame had written:
\* TAA was neither just started nor just re-enabled.
C24_Witness ==
    /\ TaaPasses # {}
    /\ \E j \in TaaBlits : host_log[j].before = WrittenBy(num_frames - 1, "taa")

\* C25: in the older loop the history slot the TAA pass reads was written in
\* the preceding frame by the TAA pass or the pass-through blit, or earlier
\* in this frame by the first-frame seed blit; tone mapping reads
\* taa_image[ping_pong], written in this frame.
C25_OldHistoryFresh ==
    /\ \A k \in TaaPasses :
          /\ host_log[k].reads = TaaRef(Idx(~ping_pong))
          /\ \/ /\ host_log[k].seen.frame = num_frames - 1
                /\ host_log[k].seen.by \in { "taa", "pass_through" }
             \/ /\ host_log[k].seen = WrittenBy(num_frames, "seed")
                /\ num_frames = 0
                /\ \E j \in TaaBlits : j < k /\ host_log[j].writes = host_log[k].reads
    /\ \A k \in ToneMaps :
          /\ host_log[k].reads = TaaRef(Idx(ping_pong))
          /\ host_log[k].seen.frame = num_frames
          /\ host_log[k].seen.by \in { "taa", "pass_through" }

\* TAA was disabled in the preceding frame and is enabled in this one.
C25_Witness ==
    /\ ToneMaps # {}
    /\ \E k \in TaaPasses : host_log[k].seen = WrittenBy(num_frames - 1, "pass_through")

\* The images the TAA pass of this frame writes when it is recorded.
TaaWrittenThisFrame(taa_enabled) ==
    IF taa_enabled THEN { TaaRef(Idx(ping_pong)) } ELSE {}

\* The output of a stage was written in this frame; for the stages other
\* than the reflections this is their own business.
StageOutputFresh(stage, current_output) ==
    stage = "ray_traced_reflections" =>
        /\ content[output_ds(current_output)[1]].st = "written"
        /\ content[output_ds(current_output)[1]].frame = num_frames

C27_DDGIMatchesScene ==
    /\ ddgi.normal_bias = SceneNormalBias(m_current_scene)
    /\ ddgi.probe_distance = SceneProbeDistance(m_current_scene)

Alive(object) ==
    IF object = "common_resources" THEN m_common_resources = "live"
                                   ELSE object \in components

\* C28: no live component holds a raw pointer to an object that has been
\* destroyed.
C28_NoDanglingHolder ==
    \A c \in components : \A object \in RawPointers(c) : Alive(object)

AfterUpdateCamera == pc \in { "render_stages", "temporal_aa", "tone_map", "submit" }

\* C29: with TAA enabled the current jitter is the table entry with index
\* num_frames mod 16, inside the table, and the previous jitter is the
\* current jitter of the preceding frame; with TAA disabled both are zero.
C29_JitterOfFrame ==
    AfterUpdateCamera =>
        IF m_taa_enabled
          THEN /\ (num_frames % HALTON_SAMPLES) + 1 \in DOMAIN m_jitter_samples
               /\ m_current_jitter = m_jitter_samples[(num_frames % HALTON_SAMPLES) + 1]
          ELSE /\ m_current_jitter = ZeroJitter
               /\ m_prev_jitter = ZeroJitter

C29_PrevIsLastCurrent ==
    (pc = "update_camera" /\ pc' = "render_stages" /\ m_taa_enabled) =>
        m_prev_jitter' = m_current_jitter

C29_HaltonJitter == [](C29_JitterOfFrame) /\ [][C29_PrevIsLastCurrent]_vars

\* The index has wrapped: frame 16 uses the first sample again, after the
\* last one.
C29_Witness ==
    /\ AfterUpdateCamera
    /\ m_taa_enabled
    /\ num_frames = HALTON_SAMPLES
    /\ m_current_jitter = m_jitter_samples[1]
    /\ m_prev_jitter = m_jitter_samples[HALTON_SAMPLES]

\* ceil(a / b) over the rationals.
Ceil(a, b) == CHOOSE n \in 0 .. a : n * b >= a /\ (n - 1) * b < a

TileCoordsEntries(b) == buffer_size[b] \div SizeofIvec2

\* C30: each tile-coordinate buffer has ceil(width/8) * ceil(height/8)
\* entries, as many as the reprojection dispatch has work groups, so at most
\* one appended tile per work group never passes the end of a list.
C30_EntriesMatchWorkGroups ==
    /\ pc # "create_buffers" =>
          \A b \in TileCoordsBuffers :
              /\ buffer_size[b] % SizeofIvec2 = 0
              /\ TileCoordsEntries(b) = Ceil(m_width, 8) * Ceil(m_height, 8)
    /\ pc \in { "classify", "classified" } =>
          \A b \in TileCoordsBuffers :
              TileCoordsEntries(b) = work_groups[1] * work_groups[2]
    /\ pc = "classified" =>
          \A b \in TileCoordsBuffers : tiles_appended <= TileCoordsEntries(b)

\* A resolution that is no multiple of the group size, every work group
\* having appended its tile.
C30_Witness ==
    /\ pc = "classified"
    /\ m_width % 8 # 0
    /\ m_width > 8
    /\ m_height % 8 # 0
    /\ tiles_appended = work_groups[1] * work_groups[2]
    /\ tiles_appended = TileCoordsEntries("copy_tile_coords")

====
